---- MODULE Spec2Model ----
(***************************************************************************)
(* The Bitcoin dashboards of SEDS_Lab11 (bitcoin/app.py and bitcoin/ml.py) *)
(* as state machines.  A session is one browser session of the Streamlit   *)
(* server; a run is one top-to-bottom execution of the script for that     *)
(* session.  The cache of fetch_bitcoin_data (@st.cache_data) is the only  *)
(* state the sessions share.                                               *)
(*                                                                         *)
(*   Spec          app.py, two concurrent sessions                         *)
(*   SpecML        ml.py, one session, the prediction tab step by step     *)
(*   SpecForecast  ml.py's future_timestamps loop against a running clock  *)
(*   SpecSMA       Series.rolling(window).mean() as app.py applies it      *)
(***************************************************************************)
EXTENDS Integers, Sequences, FiniteSets, TLC

VARIABLES
    cache,              \* st.cache_data storage of fetch_bitcoin_data: (start, end) -> frame
    lock,               \* st.cache_data's per-key compute lock: (start, end) -> holder
    pc,                 \* per session: position of the script run
    runs,               \* number of script runs started, all sessions together
    start_date,         \* per session: the "Start Date" widget value
    end_date,           \* per session: the "End Date" widget value
    data,               \* per session: the script's variable `data`
    shown,              \* per session: elements rendered by the current run
    calls,              \* per session: collaborator calls made by the current run
    raised,             \* per session: exception that aborted the current run
    short_window,       \* per session: the short-term window slider value
    long_window,        \* per session: the long-term window slider value
    csv,                \* per session: app.py's variable `csv`
    model,              \* per session: state of ml.py's LinearRegression instance
    n_train,            \* per session: rows of X_train
    n_test,             \* per session: rows of X_test
    future_days,        \* per session: the "Days into the future" slider value
    future_timestamps,  \* per session: ml.py's list future_timestamps
    future_data,        \* per session: the "Date" column of ml.py's future_data
    now,                \* the wall clock read by datetime.now()
    close,              \* SpecSMA: the Close column handed to rolling()
    window,             \* SpecSMA: the window handed to rolling()
    sma                 \* SpecSMA: the column rolling(window).mean() returned

vars == <<cache, lock, pc, runs, start_date, end_date, data, shown, calls, raised,
          short_window, long_window, csv,
          model, n_train, n_test, future_days, future_timestamps, future_data, now,
          close, window, sma>>

appVars == <<short_window, long_window, csv>>
mlVars == <<model, n_train, n_test, future_days, future_timestamps, future_data>>
smaVars == <<close, window, sma>>

-----------------------------------------------------------------------------
(* Bounds *)

MaxBars == 2        \* most rows one download returns
MaxPrice == 3       \* SpecSMA: closing prices 1..MaxPrice
MaxRuns == 3        \* script runs, all sessions together
MaxDrift == 2       \* clock ticks that may pass during the forecast loop
MaxLen == 3         \* SpecSMA: longest Close column
MaxWindow == 4      \* SpecSMA: largest window

Sessions == {"s1", "s2"}
Dates == {1, 2}     \* the days the date widgets offer
Prices == 1..MaxPrice
Keys == Dates \X Dates

-----------------------------------------------------------------------------
(* Cells and frames.  A cell is a rational <<num, den>>; NaN is <<0, 0>>.  *)
(* A frame is a pandas DataFrame: its column labels in order and its rows, *)
(* each row a function from column label to cell.                          *)

NaN == <<0, 0>>
Num(x) == <<x, 1>>
IsNaN(c) == c[2] = 0

NoEntry == [value |-> [columns |-> <<"<no entry>">>, rows |-> <<>>], messages |-> {}]
NoFrame == [columns |-> <<"<unset>">>, rows |-> <<>>]
NoLock == "free"

\* pd.DataFrame()
EmptyFrame == [columns |-> <<>>, rows |-> <<>>]

\* DataFrame.empty
IsEmptyNever(df) == FALSE
IsEmpty(df) == Len(df.rows) = 0 \/ Len(df.columns) = 0

\* "Close" in data.columns
HasColumn(df, c) == \E i \in 1..Len(df.columns) : df.columns[i] = c

\* data[c] as a sequence of cells
Column(df, c) == [i \in 1..Len(df.rows) |-> df.rows[i][c]]

\* data[c] = col : replaces the column when the label exists, appends it otherwise
AssignColumn(df, c, col) ==
    [columns |-> IF HasColumn(df, c) THEN df.columns ELSE Append(df.columns, c),
     rows |-> [i \in 1..Len(df.rows) |->
                 [k \in DOMAIN df.rows[i] \cup {c} |->
                     IF k = c THEN col[i] ELSE df.rows[i][k]]]]

-----------------------------------------------------------------------------
(* The remote: what yf.download("BTC-USD", start, end) can do.             *)

OHLCV == <<"Open", "High", "Low", "Close", "Volume">>

\* the closing price of BTC-USD on day d
ClosePrice(d) == d + 1

\* one daily bar, indexed by its date
Bar(d, p) == [Date |-> Num(d), Open |-> Num(p), High |-> Num(p + 1), Low |-> Num(p - 1),
              Close |-> Num(p), Volume |-> Num(1)]

\* the frames a download can return: 0..MaxBars daily bars from `start` on
Downloads(start, end) ==
    { [columns |-> OHLCV,
       rows |-> [i \in 1..n |-> Bar(start + i - 1, ClosePrice(start + i - 1))]] :
      n \in 0..MaxBars }

\* the call either raises or returns one of these frames
Outcomes(start, end) ==
    { [raises |-> TRUE, frame |-> EmptyFrame] } \cup
    { [raises |-> FALSE, frame |-> f] : f \in Downloads(start, end) }

-----------------------------------------------------------------------------
(* fetch_bitcoin_data and its cache                                        *)

\* data.reset_index(inplace=True): the Date index becomes the first column
ResetIndex(df) == [columns |-> <<"Date">> \o df.columns, rows |-> df.rows]

\* the body of fetch_bitcoin_data: what it returns for an outcome of the download
FetchBody(o) ==
    IF o.raises THEN EmptyFrame
    ELSE IF ~ IsEmpty(o.frame) THEN ResetIndex(o.frame) ELSE EmptyFrame

\* what a miss stores under the key: the value the body returned and the
\* elements the body rendered
EntryDropped(v, m) == NoEntry
Entry(v, m) == [value |-> v, messages |-> m]

\* the second read of the cache, made while holding the key's compute lock
ReadUnderLockSkipped(c, k) == NoEntry
ReadUnderLock(c, k) == c[k]

\* st.cache_data hands every caller its own copy of the stored value, so a
\* script that mutates `data` in place leaves the entry as it was stored
EntryAfterMutationAliased(c, k, df) == [c EXCEPT ![k].value = df]
EntryAfterMutation(c, k, df) == c

Key(s) == <<start_date[s], end_date[s]>>

-----------------------------------------------------------------------------
(* Series.rolling(window).mean()                                           *)

RECURSIVE GCD(_, _)
GCD(a, b) == IF b = 0 THEN a ELSE GCD(b, a % b)

\* the rational n/d in lowest terms
Rat(n, d) == LET g == GCD(n, d) IN <<n \div g, d \div g>>

\* rolling(window=w) sets min_periods to the window
MinPeriodsOne(w) == 1
MinPeriods(w) == w

\* calc_mean: the mean of the observations in the window, NaN below min_periods
CalcMean(minp, nobs, sum_x) ==
    IF nobs >= minp /\ nobs > 0 THEN Rat(sum_x, nobs) ELSE NaN

\* roll_mean from row i on: the running sum gains x[i] and loses x[i - w]
RECURSIVE RollFrom(_, _, _, _, _)
RollFrom(x, w, i, sum_x, nobs) ==
    IF i > Len(x) THEN <<>>
    ELSE LET leaves == i > w
             sum2 == sum_x + x[i] - (IF leaves THEN x[i - w] ELSE 0)
             nobs2 == nobs + 1 - (IF leaves THEN 1 ELSE 0)
         IN  <<CalcMean(MinPeriods(w), nobs2, sum2)>> \o RollFrom(x, w, i + 1, sum2, nobs2)

\* x.rolling(window=w).mean() for a column x of integers
RollingMean(x, w) == RollFrom(x, w, 1, 0, 0)

\* the integer values of a column of cells
Values(col) == [i \in 1..Len(col) |-> col[i][1]]

-----------------------------------------------------------------------------
(* app.py below the fetch                                                  *)

ShortWindows == {20, 50}     \* slider 5..50: its default and its upper end
LongWindows == {50, 100}     \* slider 50..200: its lower end and its default

\* f"SMA_{w}"
SMAName(w) ==
    CASE w = 20 -> "SMA_20" [] w = 50 -> "SMA_50" [] w = 100 -> "SMA_100"

\* lines 113-114: the two SMA columns are assigned into `data`
WithSMA(df, sw, lw) ==
    LET x == Values(Column(df, "Close"))
        d1 == AssignColumn(df, SMAName(sw), RollingMean(x, sw))
    IN  AssignColumn(d1, SMAName(lw), RollingMean(x, lw))

\* a cell as to_csv writes it: NaN is the empty text (na_rep = "")
Text(c) == IF IsNaN(c) THEN <<>> ELSE c

\* DataFrame.to_csv() with its defaults: a header line and one line per row,
\* each led by the index (index=True, whose label is the empty string)
ToCsv(df) ==
    [header |-> <<"">> \o df.columns,
     lines |-> [i \in 1..Len(df.rows) |->
                  <<Text(Num(i - 1))>> \o
                  [j \in 1..Len(df.columns) |-> Text(df.rows[i][df.columns[j]])]]]

NoCsv == [header |-> <<>>, lines |-> <<>>]

DateError == "Start date must be before end date."
FetchError == "Error fetching data"
NoData == "No data found for the selected range. Try adjusting the dates."
AppStages == {"Data loaded", "Raw Data", "Descriptive Statistics", "Price Trend Analysis",
              "Distribution of Closing Prices", "Correlation Heatmap"}

-----------------------------------------------------------------------------
(* Actions shared by app.py and ml.py: lines 31-52 / 24-45                 *)

\* a cache hit: the caller gets the stored value and the elements the cached
\* call rendered are replayed
Hit(s, e) ==
    /\ data' = [data EXCEPT ![s] = e.value]
    /\ shown' = [shown EXCEPT ![s] = @ \cup e.messages]
    /\ pc' = [pc EXCEPT ![s] = "branch"]

\* A script run starts: the date widgets are read and compared, the error of
\* line 36 is rendered in the sidebar, and the script goes on to call
\* fetch_bitcoin_data(start_date, end_date), which reads the cache without a lock.
Rerun(s) ==
    /\ pc[s] \in {"idle", "done"}
    /\ runs < MaxRuns
    /\ \E a \in Dates, b \in Dates :
         /\ start_date' = [start_date EXCEPT ![s] = a]
         /\ end_date' = [end_date EXCEPT ![s] = b]
         /\ LET msgs == IF a > b THEN {DateError} ELSE {}
                e == cache[<<a, b>>]
            IN  IF e # NoEntry
                THEN /\ data' = [data EXCEPT ![s] = e.value]
                     /\ shown' = [shown EXCEPT ![s] = msgs \cup e.messages]
                     /\ pc' = [pc EXCEPT ![s] = "branch"]
                ELSE /\ data' = [data EXCEPT ![s] = NoFrame]
                     /\ shown' = [shown EXCEPT ![s] = msgs]
                     /\ pc' = [pc EXCEPT ![s] = "locking"]
    /\ runs' = runs + 1
    /\ calls' = [calls EXCEPT ![s] = {"fetch_bitcoin_data"}]
    /\ raised' = [raised EXCEPT ![s] = "none"]
    /\ short_window' = [short_window EXCEPT ![s] = 0]
    /\ long_window' = [long_window EXCEPT ![s] = 0]
    /\ csv' = [csv EXCEPT ![s] = NoCsv]
    /\ model' = [model EXCEPT ![s] = "none"]
    /\ n_train' = [n_train EXCEPT ![s] = 0]
    /\ n_test' = [n_test EXCEPT ![s] = 0]
    /\ future_days' = [future_days EXCEPT ![s] = 0]
    /\ future_timestamps' = [future_timestamps EXCEPT ![s] = <<>>]
    /\ future_data' = [future_data EXCEPT ![s] = <<>>]
    /\ UNCHANGED <<cache, lock, now, smaVars>>

\* after a miss the key's compute lock is taken and the cache is read again
AcquireLock(s) ==
    /\ pc[s] = "locking"
    /\ lock[Key(s)] = NoLock
    /\ LET e == ReadUnderLock(cache, Key(s)) IN
         IF e # NoEntry
         THEN Hit(s, e) /\ UNCHANGED lock
         ELSE /\ lock' = [lock EXCEPT ![Key(s)] = s]
              /\ pc' = [pc EXCEPT ![s] = "download"]
              /\ UNCHANGED <<data, shown>>
    /\ calls' = [calls EXCEPT ![s] = @ \cup {"compute_value_lock"}]
    /\ UNCHANGED <<cache, runs, start_date, end_date, raised, appVars, mlVars, now, smaVars>>

\* the body of fetch_bitcoin_data runs under the lock; what it returns is
\* stored under the key, with the elements it rendered, and the lock is released
Compute(s) ==
    /\ pc[s] = "download"
    /\ \E o \in Outcomes(start_date[s], end_date[s]) :
         LET v == FetchBody(o)
             m == IF o.raises THEN {FetchError} ELSE {}
         IN  /\ cache' = [cache EXCEPT ![Key(s)] = Entry(v, m)]
             /\ data' = [data EXCEPT ![s] = v]
             /\ shown' = [shown EXCEPT ![s] = @ \cup m]
    /\ calls' = [calls EXCEPT ![s] = @ \cup {"yf.download"}]
    /\ lock' = [lock EXCEPT ![Key(s)] = NoLock]
    /\ pc' = [pc EXCEPT ![s] = "branch"]
    /\ UNCHANGED <<runs, start_date, end_date, raised, appVars, mlVars, now, smaVars>>

-----------------------------------------------------------------------------
(* app.py, lines 54-131                                                    *)

\* lines 54-131.  An empty frame is reported and nothing else runs.  Otherwise
\* the raw data, the statistics and the charts are rendered, the window sliders
\* are read, the SMA columns are added to `data` and `data` is exported.
AppBody(s) ==
    /\ pc[s] = "branch"
    /\ IF IsEmpty(data[s])
       THEN /\ shown' = [shown EXCEPT ![s] = @ \cup {NoData}]
            /\ UNCHANGED <<data, cache, appVars>>
       ELSE IF HasColumn(data[s], "Close")
       THEN \E sw \in ShortWindows, lw \in LongWindows :
              LET df == WithSMA(data[s], sw, lw) IN
              /\ short_window' = [short_window EXCEPT ![s] = sw]
              /\ long_window' = [long_window EXCEPT ![s] = lw]
              /\ data' = [data EXCEPT ![s] = df]
              /\ cache' = EntryAfterMutation(cache, Key(s), df)
              /\ csv' = [csv EXCEPT ![s] = ToCsv(df)]
              /\ shown' = [shown EXCEPT ![s] =
                              @ \cup AppStages \cup {"Moving Averages", "Download CSV"}]
       ELSE /\ csv' = [csv EXCEPT ![s] = ToCsv(data[s])]
            /\ shown' = [shown EXCEPT ![s] =
                            @ \cup AppStages \cup {"Closing price data is unavailable.",
                                                   "Download CSV"}]
            /\ UNCHANGED <<data, cache, short_window, long_window>>
    /\ pc' = [pc EXCEPT ![s] = "done"]
    /\ UNCHANGED <<lock, runs, start_date, end_date, calls, raised, mlVars, now, smaVars>>

-----------------------------------------------------------------------------
(* ml.py below the fetch: lines 47-123                                     *)

SecondsPerDay == 86400
TestSizePercent == 20            \* test_size=0.2
Horizons == {1, 7, 30}           \* slider 1..30, default 7: its ends and its default

\* A datetime is a day number and the second within the day; a timestamp is
\* a number of seconds.
\* datetime.timestamp
Timestamp(dt) == dt.day * SecondsPerDay + dt.tick
\* datetime.fromtimestamp
FromTimestamp(ts) == [day |-> ts \div SecondsPerDay, tick |-> ts % SecondsPerDay]
\* dt + timedelta(days=i)
AddDays(dt, i) == [dt EXCEPT !.day = @ + i]

\* lines 82-83: the Date column is rewritten by pd.to_datetime, which leaves
\* datetimes as they are, and the Timestamp column is added
WithTimestamp(df) ==
    LET dates == Column(df, "Date")
        d1 == AssignColumn(df, "Date", dates)
    IN  AssignColumn(d1, "Timestamp",
                     [i \in 1..Len(dates) |->
                        Num(Timestamp([day |-> dates[i][1], tick |-> 0]))])

\* train_test_split(test_size=0.2): n_test = ceil(0.2 * n), n_train = n - n_test
NTest(n) == (n * TestSizePercent + 99) \div 100
NTrain(n) == n - NTest(n)

\* model.fit(X_train, y_train)
FitModelSkipped(m) == m
FitModel(m) == "Trained"

MlTab1 == {"Data loaded", "Exploratory Data Analysis", "describe"}
MlTab2 == {"Bitcoin Closing Price Trend", "Correlation Heatmap"}
Metrics == {"Mean Squared Error", "R-squared"}
Forecast == "Future Bitcoin Price Prediction"
Insufficient == "Insufficient data for building the prediction model."

\* lines 47-74: the empty branch, or tab 1 and tab 2
MlReport(s) ==
    /\ pc[s] = "branch"
    /\ IF IsEmpty(data[s])
       THEN /\ shown' = [shown EXCEPT ![s] = @ \cup {NoData}]
            /\ pc' = [pc EXCEPT ![s] = "done"]
       ELSE /\ shown' = [shown EXCEPT ![s] = @ \cup MlTab1 \cup
                            (IF HasColumn(data[s], "Close") THEN MlTab2
                             ELSE {"Closing price data is unavailable for visualization."})]
            /\ pc' = [pc EXCEPT ![s] = "prepare"]
    /\ UNCHANGED <<cache, lock, runs, start_date, end_date, data, calls, raised,
                   appVars, mlVars, now, smaVars>>

\* lines 80-90: the features are prepared in `data` and the rows are split;
\* train_test_split raises ValueError when the train set would be empty, and
\* nothing in the script catches it
Prepare(s) ==
    /\ pc[s] = "prepare"
    /\ IF HasColumn(data[s], "Close")
       THEN LET df == WithTimestamp(data[s])
                n == Len(df.rows)
            IN  /\ data' = [data EXCEPT ![s] = df]
                /\ cache' = EntryAfterMutation(cache, Key(s), df)
                /\ IF NTrain(n) = 0
                   THEN /\ raised' = [raised EXCEPT ![s] = "ValueError"]
                        /\ pc' = [pc EXCEPT ![s] = "done"]
                        /\ UNCHANGED <<n_train, n_test>>
                   ELSE /\ n_train' = [n_train EXCEPT ![s] = NTrain(n)]
                        /\ n_test' = [n_test EXCEPT ![s] = NTest(n)]
                        /\ pc' = [pc EXCEPT ![s] = "construct"]
                        /\ UNCHANGED raised
                /\ UNCHANGED shown
       ELSE /\ shown' = [shown EXCEPT ![s] = @ \cup {Insufficient}]
            /\ pc' = [pc EXCEPT ![s] = "done"]
            /\ UNCHANGED <<data, cache, raised, n_train, n_test>>
    /\ UNCHANGED <<lock, runs, start_date, end_date, calls, appVars, model, future_days,
                   future_timestamps, future_data, now, smaVars>>

\* line 93: model = LinearRegression()
Construct(s) ==
    /\ pc[s] = "construct"
    /\ model' = [model EXCEPT ![s] = "Untrained"]
    /\ pc' = [pc EXCEPT ![s] = "fit"]
    /\ UNCHANGED <<cache, lock, runs, start_date, end_date, data, shown, calls, raised,
                   appVars, n_train, n_test, future_days, future_timestamps, future_data,
                   now, smaVars>>

\* line 94: model.fit(X_train, y_train)
Fit(s) ==
    /\ pc[s] = "fit"
    /\ model' = [model EXCEPT ![s] = FitModel(@)]
    /\ pc' = [pc EXCEPT ![s] = "evaluate"]
    /\ UNCHANGED <<cache, lock, runs, start_date, end_date, data, shown, calls, raised,
                   appVars, n_train, n_test, future_days, future_timestamps, future_data,
                   now, smaVars>>

\* lines 97-104: the test rows are predicted, mse and r2 are computed and
\* written; predict raises NotFittedError on a model that was not fitted
Evaluate(s) ==
    /\ pc[s] = "evaluate"
    /\ IF model[s] = "Trained"
       THEN /\ model' = [model EXCEPT ![s] = "Evaluated"]
            /\ shown' = [shown EXCEPT ![s] = @ \cup Metrics]
            /\ pc' = [pc EXCEPT ![s] = "slider"]
            /\ UNCHANGED raised
       ELSE /\ raised' = [raised EXCEPT ![s] = "NotFittedError"]
            /\ pc' = [pc EXCEPT ![s] = "done"]
            /\ UNCHANGED <<model, shown>>
    /\ UNCHANGED <<cache, lock, runs, start_date, end_date, data, calls, appVars,
                   n_train, n_test, future_days, future_timestamps, future_data, now, smaVars>>

\* line 108: future_days = st.slider("Days into the future", 1, 30, 7)
ChooseHorizon(s) ==
    /\ pc[s] = "slider"
    /\ \E n \in Horizons : future_days' = [future_days EXCEPT ![s] = n]
    /\ pc' = [pc EXCEPT ![s] = "forecast"]
    /\ UNCHANGED <<cache, lock, runs, start_date, end_date, data, shown, calls, raised,
                   appVars, model, n_train, n_test, future_timestamps, future_data,
                   now, smaVars>>

\* line 109, one turn of the comprehension for i = len(future_timestamps):
\* the clock is read and (datetime.now() + timedelta(days=i)).timestamp() is appended
ForecastStep(s) ==
    /\ pc[s] = "forecast"
    /\ Len(future_timestamps[s]) < future_days[s]
    /\ future_timestamps' =
         [future_timestamps EXCEPT ![s] =
            Append(@, Timestamp(AddDays(now, Len(future_timestamps[s]))))]
    /\ UNCHANGED <<cache, lock, pc, runs, start_date, end_date, data, shown, calls, raised,
                   appVars, model, n_train, n_test, future_days, future_data, now, smaVars>>

\* lines 110-121: the future prices are predicted and future_data is built
\* and shown, its dates read back from the timestamps
ForecastDone(s) ==
    /\ pc[s] = "forecast"
    /\ Len(future_timestamps[s]) = future_days[s]
    /\ IF model[s] \in {"Trained", "Evaluated"}
       THEN /\ future_data' = [future_data EXCEPT ![s] =
                                  [i \in 1..Len(future_timestamps[s]) |->
                                     FromTimestamp(future_timestamps[s][i])]]
            /\ shown' = [shown EXCEPT ![s] = @ \cup {Forecast}]
            /\ UNCHANGED raised
       ELSE /\ raised' = [raised EXCEPT ![s] = "NotFittedError"]
            /\ UNCHANGED <<future_data, shown>>
    /\ pc' = [pc EXCEPT ![s] = "done"]
    /\ UNCHANGED <<cache, lock, runs, start_date, end_date, data, calls, appVars, model,
                   n_train, n_test, future_days, future_timestamps, now, smaVars>>

\* the wall clock advances by one second
Tick ==
    /\ Timestamp(now) < SecondsPerDay
    /\ now' = IF now.tick = SecondsPerDay - 1
              THEN [day |-> now.day + 1, tick |-> 0]
              ELSE [now EXCEPT !.tick = @ + 1]
    /\ UNCHANGED <<cache, lock, pc, runs, start_date, end_date, data, shown, calls, raised,
                   appVars, mlVars, smaVars>>

-----------------------------------------------------------------------------
(* Spec: app.py served to two sessions                                     *)

InitShared ==
    /\ cache = [k \in Keys |-> NoEntry]
    /\ lock = [k \in Keys |-> NoLock]
    /\ runs = 0
    /\ start_date = [s \in Sessions |-> 1]
    /\ end_date = [s \in Sessions |-> 1]
    /\ data = [s \in Sessions |-> NoFrame]
    /\ shown = [s \in Sessions |-> {}]
    /\ calls = [s \in Sessions |-> {}]
    /\ raised = [s \in Sessions |-> "none"]
    /\ short_window = [s \in Sessions |-> 0]
    /\ long_window = [s \in Sessions |-> 0]
    /\ csv = [s \in Sessions |-> NoCsv]
    /\ model = [s \in Sessions |-> "none"]
    /\ n_train = [s \in Sessions |-> 0]
    /\ n_test = [s \in Sessions |-> 0]
    /\ future_days = [s \in Sessions |-> 0]
    /\ future_timestamps = [s \in Sessions |-> <<>>]
    /\ future_data = [s \in Sessions |-> <<>>]

\* the clock starts MaxDrift seconds before midnight
ClockStart == [day |-> 0, tick |-> SecondsPerDay - MaxDrift]

NoRolling ==
    /\ close = <<>>
    /\ window = 1
    /\ sma = <<>>

Init ==
    /\ InitShared
    /\ pc = [s \in Sessions |-> "idle"]
    /\ now = ClockStart
    /\ NoRolling

Next ==
    \E s \in Sessions :
        \/ Rerun(s)
        \/ AcquireLock(s)
        \/ Compute(s)
        \/ AppBody(s)

Spec == Init /\ [][Next]_vars

-----------------------------------------------------------------------------
(* SpecML: ml.py in one session, the clock standing still                  *)

NextML ==
    \/ Rerun("s1")
    \/ AcquireLock("s1")
    \/ Compute("s1")
    \/ MlReport("s1")
    \/ Prepare("s1")
    \/ Construct("s1")
    \/ Fit("s1")
    \/ Evaluate("s1")
    \/ ChooseHorizon("s1")
    \/ ForecastStep("s1")
    \/ ForecastDone("s1")

SpecML == Init /\ [][NextML]_vars

-----------------------------------------------------------------------------
(* SpecForecast: the forecast of ml.py from the slider on, the clock       *)
(* running.  It starts where a run of SpecML stands at line 108, after a   *)
(* download of two bars for the range (1, 2).                              *)

ForecastFetched ==
    FetchBody([raises |-> FALSE,
               frame |-> [columns |-> OHLCV,
                          rows |-> [i \in 1..2 |-> Bar(i, ClosePrice(i))]]])

InitForecast ==
    /\ cache = [k \in Keys |-> IF k = <<1, 2>> THEN Entry(ForecastFetched, {}) ELSE NoEntry]
    /\ lock = [k \in Keys |-> NoLock]
    /\ runs = 1
    /\ start_date = [s \in Sessions |-> 1]
    /\ end_date = [s \in Sessions |-> IF s = "s1" THEN 2 ELSE 1]
    /\ data = [s \in Sessions |-> IF s = "s1" THEN WithTimestamp(ForecastFetched) ELSE NoFrame]
    /\ shown = [s \in Sessions |-> IF s = "s1" THEN MlTab1 \cup MlTab2 \cup Metrics ELSE {}]
    /\ calls = [s \in Sessions |->
                  IF s = "s1" THEN {"fetch_bitcoin_data", "compute_value_lock", "yf.download"}
                  ELSE {}]
    /\ raised = [s \in Sessions |-> "none"]
    /\ short_window = [s \in Sessions |-> 0]
    /\ long_window = [s \in Sessions |-> 0]
    /\ csv = [s \in Sessions |-> NoCsv]
    /\ model = [s \in Sessions |-> IF s = "s1" THEN "Evaluated" ELSE "none"]
    /\ n_train = [s \in Sessions |-> IF s = "s1" THEN NTrain(2) ELSE 0]
    /\ n_test = [s \in Sessions |-> IF s = "s1" THEN NTest(2) ELSE 0]
    /\ future_days = [s \in Sessions |-> 0]
    /\ future_timestamps = [s \in Sessions |-> <<>>]
    /\ future_data = [s \in Sessions |-> <<>>]
    /\ pc = [s \in Sessions |-> IF s = "s1" THEN "slider" ELSE "idle"]
    /\ now = ClockStart
    /\ NoRolling

NextForecast ==
    \/ ChooseHorizon("s1")
    \/ ForecastStep("s1")
    \/ ForecastDone("s1")
    \/ Tick

SpecForecast == InitForecast /\ [][NextForecast]_vars

-----------------------------------------------------------------------------
(* SpecSMA: data["Close"].rolling(window=W).mean() on every Close column   *)
(* of up to MaxLen prices and every window up to MaxWindow                 *)

InitSMA ==
    /\ InitShared
    /\ pc = [s \in Sessions |-> IF s = "s1" THEN "rolling" ELSE "idle"]
    /\ now = ClockStart
    /\ close \in UNION { [1..n -> Prices] : n \in 0..MaxLen }
    /\ window \in 1..MaxWindow
    /\ sma = <<>>

Roll ==
    /\ pc["s1"] = "rolling"
    /\ sma' = RollingMean(close, window)
    /\ pc' = [pc EXCEPT !["s1"] = "rolled"]
    /\ UNCHANGED <<cache, lock, runs, start_date, end_date, data, shown, calls, raised,
                   appVars, mlVars, now, close, window>>

SpecSMA == InitSMA /\ [][Roll]_vars

-----------------------------------------------------------------------------
(* Properties of Spec                                                      *)

Downstream == AppStages \cup {"Moving Averages", "Download CSV",
                              "Closing price data is unavailable."}
Fetched(s) == pc[s] \in {"branch", "done"}
Downloaded(s) == "yf.download" \in calls[s]

\* C1: a run whose start date is after its end date is rejected before
\* fetching: it calls neither fetch_bitcoin_data nor the remote download.
C1_NoFetchWhenStartAfterEnd ==
    \A s \in Sessions :
        pc[s] # "idle" /\ start_date[s] > end_date[s] =>
            "fetch_bitcoin_data" \notin calls[s] /\ ~ Downloaded(s)

C2_Step ==
    /\ \A k \in Keys : cache[k] # NoEntry => cache'[k] = cache[k]
    /\ \A s \in Sessions :
         /\ ~ Fetched(s) /\ pc'[s] = "branch" => data'[s] = cache'[Key(s)'].value
         /\ pc[s] \in {"idle", "done"} /\ pc'[s] \notin {"idle", "done"}
              /\ cache[Key(s)'] # NoEntry =>
                 pc'[s] = "branch" /\ data'[s] = cache[Key(s)'].value
         /\ ~ Downloaded(s) /\ Downloaded(s)' => cache[Key(s)] = NoEntry

\* C2: an entry, once stored, is never replaced or removed; a fetch returns
\* what is stored under its key; and the remote is called only for a key
\* that has no entry, so a fetch for a key fetched before downloads nothing.
C2_CacheHitReturnsFirstResult == [][C2_Step]_vars

\* C2 witness: a second run has hit an entry that an earlier run stored
C2_Witness ==
    \E s \in Sessions :
        /\ runs >= 2
        /\ pc[s] = "branch"
        /\ calls[s] = {"fetch_bitcoin_data"}
        /\ data[s] = cache[Key(s)].value

\* C3: when the download raises or returns no rows, fetch_bitcoin_data
\* returns the empty frame, no exception reaches the script, no stage below
\* the fetch runs and the run reports that no data was found.
C3_EmptyFetchStopsRun ==
    \A s \in Sessions :
        /\ Fetched(s) /\ FetchError \in shown[s] => Len(data[s].rows) = 0
        /\ Fetched(s) /\ Len(data[s].rows) = 0 =>
             /\ data[s] = EmptyFrame
             /\ raised[s] = "none"
             /\ shown[s] \cap Downstream = {}
             /\ csv[s] = NoCsv
             /\ pc[s] = "done" => NoData \in shown[s]

\* C3 witness: one finished run whose download raised, another whose
\* download returned no rows
C3_Witness ==
    \E s \in Sessions, t \in Sessions :
        /\ pc[s] = "done" /\ Downloaded(s) /\ FetchError \in shown[s]
        /\ pc[t] = "done" /\ Downloaded(t) /\ FetchError \notin shown[t]
        /\ NoData \in shown[s] \cap shown[t]

\* C6: the exported CSV has the header Date,Open,High,Low,Close,Volume
\* followed by the short and the long SMA column, and one line per bar.
C6_CsvHeaderAndRows ==
    \A s \in Sessions :
        pc[s] = "done" /\ ~ IsEmpty(data[s]) =>
            /\ csv[s].header = <<"Date", "Open", "High", "Low", "Close", "Volume",
                                 SMAName(short_window[s]), SMAName(long_window[s])>>
            /\ Len(csv[s].lines) = Len(data[s].rows)

C8_Inv ==
    /\ \A s \in Sessions : pc[s] = "branch" => data[s] = cache[Key(s)].value
    /\ \A s \in Sessions, t \in Sessions :
         pc[s] = "branch" /\ pc[t] = "branch" /\ Key(s) = Key(t) => data[s] = data[t]
    /\ \A s \in Sessions : pc[s] \in {"idle", "done"} /\ runs < MaxRuns => ENABLED Rerun(s)
C8_Step ==
    \A k \in Keys :
        cache'[k] # cache[k] =>
            /\ cache[k] = NoEntry
            /\ lock[k] # NoLock
            /\ \A k2 \in Keys \ {k} : cache'[k2] = cache[k2]

\* C8: when two sessions fetch the same key and both miss, every session
\* that has fetched the key holds the value of the key's one entry; a write
\* creates the entry of its own key, under that key's lock, and changes no
\* other entry; and a session can always start a run, whatever locks are held.
C8_ConcurrentFetchAgrees == []C8_Inv /\ [][C8_Step]_vars

\* C8 witness: two sessions missed the same key; one downloaded, the other
\* waited for the lock and found the entry; a lock on another key is held
C8_Witness ==
    \E s \in Sessions, t \in Sessions :
        /\ s # t /\ Key(s) = Key(t)
        /\ pc[s] = "branch" /\ Downloaded(s)
        /\ pc[t] = "branch" /\ calls[t] = {"fetch_bitcoin_data", "compute_value_lock"}

C10_Step ==
    \A s \in Sessions :
        pc[s] = "branch" /\ pc'[s] = "done" /\ ~ IsEmpty(data[s]) =>
            /\ cache' = cache
            /\ cache[Key(s)].value = data[s]
            /\ data[s].columns = <<"Date">> \o OHLCV
            /\ SubSeq(data'[s].columns, 1, Len(data[s].columns)) = data[s].columns
            /\ Len(data'[s].columns) > Len(data[s].columns)
            /\ Len(data'[s].rows) = Len(data[s].rows)
            /\ \A i \in 1..Len(data[s].rows) : \A c \in DOMAIN data[s].rows[i] :
                   data'[s].rows[i][c] = data[s].rows[i][c]

-----------------------------------------------------------------------------
(* Properties of SpecML                                                    *)

\* C7: with fewer than 2 bars the forecast fails with an outcome confined to
\* the forecast tab: no exception aborts the run, the raw data and the
\* statistics are rendered, and the tab reports the insufficient data.
C7_OneBarConfinedToForecast ==
    \A s \in Sessions :
        Fetched(s) /\ Len(data[s].rows) = 1 =>
            /\ raised[s] = "none"
            /\ pc[s] = "done" =>
                 /\ MlTab1 \subseteq shown[s]
                 /\ Insufficient \in shown[s]
                 /\ Forecast \notin shown[s]

C9_Inv ==
    \A s \in Sessions :
        /\ raised[s] # "NotFittedError"
        /\ Metrics \cap shown[s] # {} => model[s] = "Evaluated"
        /\ pc[s] \in {"slider", "forecast"} \/ Forecast \in shown[s] => model[s] = "Evaluated"
        /\ model[s] \in {"Trained", "Evaluated"} =>
             /\ n_train[s] >= 1 /\ n_test[s] >= 1
             /\ n_train[s] + n_test[s] = Len(data[s].rows)
C9_Step ==
    \A s \in Sessions :
        model'[s] # model[s] =>
            \/ model'[s] = "none" /\ runs' = runs + 1
            \/ <<model[s], model'[s]>> \in {<<"none", "Untrained">>,
                                            <<"Untrained", "Trained">>,
                                            <<"Trained", "Evaluated">>}

\* C9: the model of a run goes none -> Untrained -> Trained -> Evaluated and
\* never back; only a new run, which builds a new model, leaves a state
\* behind.  It is fitted on a train set that is not empty, the metrics are
\* written and the forecast is made only in state Evaluated, and predict
\* never meets an unfitted model.
C9_ModelLifecycle == []C9_Inv /\ [][C9_Step]_vars

\* C9 witness: a second run has evaluated its own model and shown a forecast
C9_Witness ==
    \E s \in Sessions :
        /\ runs >= 2
        /\ pc[s] = "done"
        /\ model[s] = "Evaluated"
        /\ Forecast \in shown[s]

-----------------------------------------------------------------------------
(* Properties of SpecForecast                                              *)

\* C4: for a horizon N of 1..30 the forecast has exactly N points, and each
\* point is dated exactly one day after the point before it.
C4_ForecastDatesOneDayApart ==
    \A s \in Sessions :
        Forecast \in shown[s] =>
            /\ future_days[s] \in 1..30
            /\ Len(future_data[s]) = future_days[s]
            /\ \A j \in 1..(Len(future_data[s]) - 1) :
                   future_data[s][j + 1] = AddDays(future_data[s][j], 1)

-----------------------------------------------------------------------------
(* Properties of SpecSMA                                                   *)

RECURSIVE Sum(_)
Sum(x) == IF x = <<>> THEN 0 ELSE Head(x) + Sum(Tail(x))

\* the mean of a non-empty sequence of integers
Mean(x) == Rat(Sum(x), Len(x))

\* C5: the moving-average column has one entry per row; entry i (from 1) is
\* undefined when i < W and is otherwise the mean of the W closing prices at
\* rows i-W+1..i.  So the column is all undefined when W exceeds the length,
\* and equals the Close column when W = 1.
C5_RollingMean ==
    pc["s1"] = "rolled" =>
        /\ Len(sma) = Len(close)
        /\ \A i \in 1..Len(close) :
             /\ i < window => IsNaN(sma[i])
             /\ i >= window =>
                  /\ ~ IsNaN(sma[i])
                  /\ sma[i] = Mean(SubSeq(close, i - window + 1, i))
        /\ window > Len(close) => \A i \in 1..Len(sma) : sma[i] = NaN
        /\ window = 1 => sma = [i \in 1..Len(close) |-> Num(close[i])]

\* C5 witness: a window of 2 over three prices that differ: one undefined
\* entry, then two means
C5_Witness ==
    /\ pc["s1"] = "rolled"
    /\ window = 2
    /\ close = <<1, 2, 3>>
    /\ sma = <<NaN, <<3, 2>>, <<5, 2>>>>

====
